---- MODULE Spec2Model ----
(***************************************************************************)
(* Segmented coverage-support scoring of contigs: the Coverage Store as    *)
(* load_all_coverage_data builds it, and the three screening modes that    *)
(* read it (analyze_coverage_distribution, quick_chimera_scan,             *)
(* identify_chimeric_contigs, create_filtered_visualization,               *)
(* create_chimeric_visualization, the viewer's main).                      *)
(*                                                                         *)
(* Numbers.  Coverage values are Python floats holding small integers, so  *)
(* sums are exact.  A mean total/count is kept as the pair of its total    *)
(* and count; means and thresholds are compared by cross-multiplication,   *)
(* which agrees with the float comparison because two different quotients *)
(* of small integers differ by far more than one ulp and equal quotients   *)
(* round to the same double.  A chimera score unique/len (len in 1..5) is  *)
(* kept as its exact number of sixtieths, (60*unique) \div len.            *)
(***************************************************************************)
EXTENDS Integers, Sequences, FiniteSets, TLC

VARIABLES
    coverage_data,      \* the Coverage Store: <<[name, samples]>>, insertion order
    pc,                 \* "idle", or which call has just run
    chimera_scores,     \* quick_chimera_scan: sorted (contig, score, leaders, segments)
    report,             \* quick_chimera_scan: the printed result lines
    chimeric_contigs,   \* identify_chimeric_contigs: its return value
    min_score,          \* identify_chimeric_contigs: its argument (sixtieths)
    contig_name,        \* analyze_coverage_distribution: its argument
    min_coverage,       \* analyze_coverage_distribution: its argument
    all_positions_len,  \* len(all_positions)
    contig_length,
    num_segments,
    segment_size,
    segments,           \* per segment, the printed (seg_start, seg_end)
    top_samples,        \* per segment, the printed leaderboard
    segment_coverages,  \* per segment, the second pass's segment_coverage
    segment_leaders,    \* per segment, the leader or None
    unique_leaders,     \* len(unique_leaders)
    assessment,         \* the printed assessment
    available,          \* the contig names printed when the contig is missing
    leader_log,         \* screening: (contig, segment_leaders, segments) of each
                        \* contig segmented
    all_contigs,        \* the assembly's contig names, in FASTA order
    fasta_exists,       \* os.path.exists(config['fasta_path'])
    coverage_dir_exists, \* os.path.exists(config['coverage_dir'])
    min_mean_coverage,  \* create_filtered_visualization: its argument
    max_samples,        \* create_filtered_visualization: its argument
    filtered_coverage_data, \* <<[name, samples]>>, insertion order
    total_samples_before,
    total_samples_after,
    html,               \* the files generate_html has written: for each
                        \* output_path, the contigs and coverage data it embeds
    summary             \* the summary reports create_chimeric_visualization
                        \* has written, by file name

vars == <<coverage_data, pc, chimera_scores, report, chimeric_contigs, min_score,
          contig_name, min_coverage, all_positions_len, contig_length,
          num_segments, segment_size, segments, top_samples, segment_coverages,
          segment_leaders, unique_leaders, assessment, available, leader_log,
          all_contigs, fasta_exists, coverage_dir_exists, min_mean_coverage, max_samples, filtered_coverage_data,
          total_samples_before, total_samples_after, html, summary>>

\* What the visualization scripts read from the FASTA file, compute and write.
filter_vars == <<all_contigs, fasta_exists, coverage_dir_exists,
                 min_mean_coverage, max_samples,
                 filtered_coverage_data, total_samples_before,
                 total_samples_after, html, summary>>

(***************************************************************************)
(* Bounds of the model and constants of the program.                       *)
(***************************************************************************)
\* Most points one contig of the single-contig stores holds, over all samples.
MaxPoints == 4
\* Most points one contig of the two-contig stores holds, over all samples.
MaxPointsMulti == 3
\* Largest number of distinct positions the segment-count rule is applied to.
MaxPositions == 1100
\* Largest number of positions below contig_length that no sample records.
MaxGap == 12
\* Longest sequence of segment leaders the scoring rules are applied to.
MaxLeaders == 5
\* Most points a contig shorter than its segment count holds, over all samples.
MaxPointsShort == 3
\* Most contigs a store of many contigs holds.
MaxContigs == 11
\* Most samples with a point in the first segment of a leaderboard contig.
MaxCandidates == 6
MaxAssembly == 2         \* names in the assembly list given to the filter
MaxCap == 2              \* largest max_samples given to the filter

MinContigLength == 1000
ScreeningSegments == 5
ScreeningMinCoverage == 5
MaxSegments == 10
MinSegments == 3
PositionsPerSegment == 100
TopN == 5
AvailableShown == 10
ScoreScale == 60

None == "None"
Samples == {"A", "B"}
ContigNames == <<"contig_1", "contig_2", "contig_3">>
Positions == {0, 200, 500, 1000, 1003}
PositionsMulti == {200, 500, 1000}
Coverages == {4, 6}
CoveragesMulti == {6}
\* Arguments the calls are given: 36/60 = 0.6 is identify's default, 10 analyze's.
MinScores == {30, 36, 60}
MinCoverages == {0, 5, 10}
\* The samples the leader sequences given to the scoring rules are made of.
ScoreSamples == {"A", "B", "C", "D", "E"}
\* The samples of the leaderboard contigs, in the order their files are read.
BoardSamples == <<"A", "B", "C", "D", "E", "F", "G">>
BoardCoverages == {4, 6, 8}

(***************************************************************************)
(* The Coverage Store, as load_all_coverage_data returns it.               *)
(***************************************************************************)
RECURSIVE SortedPositions(_)
SortedPositions(S) ==
    IF S = {} THEN <<>>
    ELSE LET m == CHOOSE x \in S : \A y \in S : x <= y
         IN  <<m>> \o SortedPositions(S \ {m})

\* One sample's track: its points, sorted by position.
Track(f, s) ==
    LET ps == SortedPositions({sp[2] : sp \in {x \in DOMAIN f : x[1] = s}})
    IN  [i \in 1..Len(ps) |-> [position |-> ps[i], coverage |-> f[<<s, ps[i]>>]]]

\* The contig's samples in the order their files were read.
ContigData(f, order) ==
    [i \in 1..Len(order) |-> [sample |-> order[i], points |-> Track(f, order[i])]]

Placements(ss, ps, cs, n) ==
    UNION {[D -> cs] : D \in {X \in SUBSET (ss \X ps) : Cardinality(X) \in 1..n}}

Present(f) == {sp[1] : sp \in DOMAIN f}

Orders(S) ==
    {o \in [1..Cardinality(S) -> S] : \A i, j \in 1..Cardinality(S) : o[i] = o[j] => i = j}

\* Every contig_data with at most n points in all, each sample that has a point
\* present, in any file order.
ContigDatas(ps, cs, n) ==
    UNION {{ContigData(f, o) : o \in Orders(Present(f))} : f \in Placements(Samples, ps, cs, n)}

\* The same for the samples ss with the files read in one fixed order.
ContigDatasOrdered(ss, ps, cs, n) ==
    {ContigData(f, SelectSeq(<<"A", "B">>, LAMBDA s : s \in Present(f))) :
        f \in Placements(ss, ps, cs, n)}

SingleStores ==
    {<<[name |-> ContigNames[1], samples |-> cd]>> :
        cd \in ContigDatas(Positions, Coverages, MaxPoints)}

MultiStores ==
    LET cds == ContigDatasOrdered(Samples, PositionsMulti, CoveragesMulti, MaxPointsMulti)
    IN  {<<>>}
        \cup {<<[name |-> ContigNames[2], samples |-> cd]>> : cd \in cds}
        \cup {<<[name |-> ContigNames[1], samples |-> c1],
                [name |-> ContigNames[2], samples |-> c2]>> : c1 \in cds, c2 \in cds}

\* Three contigs, each covered by the one sample "A".
TripleStores ==
    LET cds == ContigDatasOrdered({"A"}, PositionsMulti, CoveragesMulti, MaxPointsMulti)
    IN  {<<[name |-> ContigNames[1], samples |-> c1],
           [name |-> ContigNames[2], samples |-> c2],
           [name |-> ContigNames[3], samples |-> c3]>> :
            c1 \in cds, c2 \in cds, c3 \in cds}

\* The contigs the detailed mode has least to divide: every position below
\* the segment count, contig_length 0 (a single position, 0) included.  The
\* loader creates a contig and a sample with their first point, so there is
\* no contig without a sample and no sample without a point.
ShortPositions == {0, 1, 2}

DegenerateStores ==
    {<<[name |-> ContigNames[1], samples |-> cd]>> :
        cd \in ContigDatas(ShortPositions, Coverages, MaxPointsShort)}

\* The names of the contigs of a store of many contigs, in file order.
ManyNames ==
    <<"contig_2", "contig_3", "contig_4", "contig_5", "contig_6", "contig_7",
      "contig_8", "contig_9", "contig_10", "contig_11", "contig_12", "contig_13">>

\* Up to MaxContigs contigs, each with the same single point of sample "A".
ManyStores ==
    LET cds == ContigDatasOrdered({"A"}, {200, 1000}, CoveragesMulti, 1)
    IN  {[i \in 1..k |-> [name |-> ManyNames[i], samples |-> cd]] :
            k \in 1..MaxContigs, cd \in cds}

\* A contig of length 3 (sample "A" has a point at 3) in whose first segment
\* [0, 1) any of the first MaxCandidates samples has one point, at 0.
BoardContigData(c) ==
    LET order == SelectSeq(SubSeq(BoardSamples, 1, MaxCandidates),
                           LAMBDA x : x \in DOMAIN c \/ x = "A")
    IN  [i \in 1..Len(order) |->
            [sample |-> order[i],
             points |->
                 (IF order[i] \in DOMAIN c
                  THEN <<[position |-> 0, coverage |-> c[order[i]]]>> ELSE <<>>)
                 \o (IF order[i] = "A"
                     THEN <<[position |-> 3, coverage |-> 4]>> ELSE <<>>)]]

BoardStores ==
    {<<[name |-> ContigNames[1], samples |-> BoardContigData(c)]>> :
        c \in UNION {[P -> BoardCoverages] :
                        P \in SUBSET {BoardSamples[i] : i \in 1..MaxCandidates}}}

StoreInputs == SingleStores \cup MultiStores \cup TripleStores \cup ManyStores

StoreNames(store) == {store[i].name : i \in 1..Len(store)}

Lookup(store, name) ==
    store[CHOOSE i \in 1..Len(store) : store[i].name = name].samples

(***************************************************************************)
(* The Segmenter: positions, segment bounds, per-sample means, leaders.    *)
(***************************************************************************)
\* all_positions: every position any sample records for the contig.
AllPositions(contig_data) ==
    UNION {{contig_data[i].points[k].position : k \in 1..Len(contig_data[i].points)} :
              i \in 1..Len(contig_data)}

\* contig_length = max(all_positions) if all_positions else 0
ContigLength(contig_data) ==
    LET all == AllPositions(contig_data)
    IN  IF all = {} THEN 0 ELSE CHOOSE m \in all : \A x \in all : x <= m

\* The segment count without the raise to 3.
NumSegmentsNoFloor(n) ==
    IF MaxSegments < n \div PositionsPerSegment
    THEN MaxSegments ELSE n \div PositionsPerSegment

\* num_segments = min(10, len(all_positions) // 100), raised to 3 when below it.
NumSegments(n) ==
    LET q == IF MaxSegments < n \div PositionsPerSegment
             THEN MaxSegments ELSE n \div PositionsPerSegment
    IN  IF q < MinSegments THEN MinSegments ELSE q

SegStart(seg_idx, size) == seg_idx * size

\* seg_end without the final segment's "else contig_length".
SegEndNoRemainder(seg_idx, size, nseg, length) == (seg_idx + 1) * size

\* seg_end = (seg_idx + 1) * segment_size if seg_idx < num_segments - 1
\*           else contig_length
SegEnd(seg_idx, size, nseg, length) ==
    IF seg_idx < nseg - 1 THEN (seg_idx + 1) * size ELSE length

\* The membership test: seg_start <= point['position'] < seg_end.
InSegment(position, seg_start, seg_end) ==
    seg_start <= position /\ position < seg_end

PointsInSegment(points, seg_start, seg_end) ==
    SelectSeq(points, LAMBDA pt : InSegment(pt.position, seg_start, seg_end))

RECURSIVE TotalCov(_)
TotalCov(points) ==
    IF points = <<>> THEN 0 ELSE Head(points).coverage + TotalCov(Tail(points))

\* mean_cov >= threshold, for mean_cov = total / count with count > 0.
MeanAtLeast(total, count, threshold) == total >= threshold * count

\* The mean of item a is greater than (or equal to) the mean of item b.
MeanGreater(a, b) == a.total * b.count > b.total * a.count
MeanGE(a, b) == a.total * b.count >= b.total * a.count

\* segment_coverage: in sample order, each sample with a point in the segment
\* whose mean reaches the threshold, with its mean (total over count).
RECURSIVE SegmentCoverage(_, _, _, _)
SegmentCoverage(contig_data, seg_start, seg_end, threshold) ==
    IF contig_data = <<>> THEN <<>>
    ELSE LET inseg == PointsInSegment(Head(contig_data).points, seg_start, seg_end)
             total_cov == TotalCov(inseg)
             positions_in_segment == Len(inseg)
             rest == SegmentCoverage(Tail(contig_data), seg_start, seg_end, threshold)
         IN  IF positions_in_segment > 0
                  /\ MeanAtLeast(total_cov, positions_in_segment, threshold)
             THEN <<[sample |-> Head(contig_data).sample,
                     total |-> total_cov, count |-> positions_in_segment]>> \o rest
             ELSE rest

\* The maximum taken as the last item no other item beats.
LeaderLast(segment_coverage) ==
    LET i == CHOOSE k \in 1..Len(segment_coverage) :
                 /\ \A j \in 1..Len(segment_coverage) :
                        MeanGE(segment_coverage[k], segment_coverage[j])
                 /\ \A j \in (k + 1)..Len(segment_coverage) :
                        MeanGreater(segment_coverage[k], segment_coverage[j])
    IN  segment_coverage[i].sample

\* max(segment_coverage.items(), key=mean): the first item no other item beats.
Leader(segment_coverage) ==
    LET i == CHOOSE k \in 1..Len(segment_coverage) :
                 /\ \A j \in 1..Len(segment_coverage) :
                        MeanGE(segment_coverage[k], segment_coverage[j])
                 /\ \A j \in 1..(k - 1) :
                        MeanGreater(segment_coverage[k], segment_coverage[j])
    IN  segment_coverage[i].sample

\* list.insert for a stable sort by mean, highest first.
RECURSIVE InsertByMean(_, _)
InsertByMean(sorted, x) ==
    IF sorted = <<>> THEN <<x>>
    ELSE IF MeanGE(Head(sorted), x) THEN <<Head(sorted)>> \o InsertByMean(Tail(sorted), x)
         ELSE <<x>> \o sorted

RECURSIVE SortByMeanDesc(_)
SortByMeanDesc(items) ==
    IF items = <<>> THEN <<>>
    ELSE InsertByMean(SortByMeanDesc(SubSeq(items, 1, Len(items) - 1)), items[Len(items)])

\* The sorted items without the [:5].
TopSamplesAll(segment_coverage) == SortByMeanDesc(segment_coverage)

\* sorted(segment_coverage.items(), key=cov, reverse=True)[:5]
TopSamples(segment_coverage) ==
    LET s == SortByMeanDesc(segment_coverage)
    IN  SubSeq(s, 1, IF Len(s) < TopN THEN Len(s) ELSE TopN)

\* The count of distinct leaders without the "is not None" filter.
UniqueLeadersWithNone(leaders) ==
    Cardinality({leaders[i] : i \in 1..Len(leaders)})

\* The count taken as the number of runs of one leader along the contig.
LeaderRuns(leaders) ==
    Cardinality({i \in 1..Len(leaders) :
                    leaders[i] # None /\ (i = 1 \/ leaders[i - 1] # leaders[i])})

\* len(set(leader for leader in segment_leaders if leader is not None))
UniqueLeaders(leaders) ==
    Cardinality({leaders[i] : i \in 1..Len(leaders)} \ {None})

\* chimera_score = unique_leaders / len(segment_leaders), in sixtieths.
ChimeraScore(unique, len) == (ScoreScale * unique) \div len

(***************************************************************************)
(* analyze_coverage_distribution: the two passes over the segments.        *)
(***************************************************************************)
DetailSegmentCoverage(contig_data, seg_idx, nseg, size, length, threshold) ==
    SegmentCoverage(contig_data, SegStart(seg_idx, size),
                    SegEnd(seg_idx, size, nseg, length), threshold)

\* seg_start and seg_end of each segment, as both passes compute them.
DetailSegments(nseg, size, length) ==
    [s \in 1..nseg |-> <<SegStart(s - 1, size), SegEnd(s - 1, size, nseg, length)>>]

\* segment_coverage of each segment, as the second pass builds it.
DetailCoverages(contig_data, nseg, size, length, threshold) ==
    [s \in 1..nseg |->
        DetailSegmentCoverage(contig_data, s - 1, nseg, size, length, threshold)]

\* First pass: the leaderboard printed for each segment.
DetailTopSamples(contig_data, nseg, size, length, threshold) ==
    [s \in 1..nseg |->
        TopSamples(DetailSegmentCoverage(contig_data, s - 1, nseg, size, length, threshold))]

\* Second pass: the leader of each segment, None where no sample qualifies.
DetailLeaders(contig_data, nseg, size, length, threshold) ==
    [s \in 1..nseg |->
        LET segment_coverage ==
                DetailSegmentCoverage(contig_data, s - 1, nseg, size, length, threshold)
        IN  IF segment_coverage # <<>> THEN Leader(segment_coverage) ELSE None]

\* The assessment taken from the ratio of leaders to segments instead.
DetailAssessmentByRatio(unique) ==
    IF 5 * unique < 3 * Len(segment_leaders) THEN "LIKELY GENUINE"
    ELSE IF 5 * unique < 4 * Len(segment_leaders) THEN "POSSIBLY CHIMERIC"
    ELSE "LIKELY CHIMERIC"

\* The assessment printed from len(unique_leaders): <= 2, <= 4, above.
DetailAssessment(unique) ==
    IF unique <= 2 THEN "LIKELY GENUINE"
    ELSE IF unique <= 4 THEN "POSSIBLY CHIMERIC"
    ELSE "LIKELY CHIMERIC"

(***************************************************************************)
(* quick_chimera_scan.                                                     *)
(***************************************************************************)
\* The length test with <= for <.
TooShortInclusive(length) == length <= MinContigLength

\* The contig is skipped: if contig_length < 1000: continue
TooShort(length) == length < MinContigLength

\* segment_leaders of one contig: a leader is appended only for a segment in
\* which some sample qualifies.
RECURSIVE ScanLeaders(_, _, _, _)
ScanLeaders(contig_data, seg_idx, size, length) ==
    IF seg_idx >= ScreeningSegments THEN <<>>
    ELSE LET segment_coverage ==
                 SegmentCoverage(contig_data, SegStart(seg_idx, size),
                                 SegEnd(seg_idx, size, ScreeningSegments, length),
                                 ScreeningMinCoverage)
             rest == ScanLeaders(contig_data, seg_idx + 1, size, length)
         IN  IF segment_coverage # <<>> THEN <<Leader(segment_coverage)>> \o rest
             ELSE rest

\* seg_start, seg_end and segment_coverage of each of the 5 segments.
ScanSegments(contig_data, size, length) ==
    [s \in 1..ScreeningSegments |->
        [seg_start |-> SegStart(s - 1, size),
         seg_end |-> SegEnd(s - 1, size, ScreeningSegments, length),
         segment_coverage |->
             SegmentCoverage(contig_data, SegStart(s - 1, size),
                             SegEnd(s - 1, size, ScreeningSegments, length),
                             ScreeningMinCoverage)]]

\* The tuple with the number of segments in place of len(segment_leaders).
ScanEntryAllSegments(name, leaders) ==
    <<name, ChimeraScore(UniqueLeaders(leaders), Len(leaders)),
      UniqueLeaders(leaders), ScreeningSegments>>

\* The tuple appended for a contig with at least one leader.
ScanEntry(name, leaders) ==
    <<name, ChimeraScore(UniqueLeaders(leaders), Len(leaders)),
      UniqueLeaders(leaders), Len(leaders)>>

\* One iteration of the loop over the contigs: the entries it appends.
ScanContig(contig) ==
    LET length == ContigLength(contig.samples)
        leaders == ScanLeaders(contig.samples, 0, length \div ScreeningSegments, length)
    IN  IF TooShort(length) THEN <<>>
        ELSE IF Len(leaders) > 0 THEN <<ScanEntry(contig.name, leaders)>>
        ELSE <<>>

RECURSIVE ScanAll(_)
ScanAll(store) ==
    IF store = <<>> THEN <<>> ELSE ScanContig(Head(store)) \o ScanAll(Tail(store))

\* Stable insertion by score, highest first (list.sort(key=score, reverse=True)).
RECURSIVE InsertByScore(_, _)
InsertByScore(sorted, x) ==
    IF sorted = <<>> THEN <<x>>
    ELSE IF Head(sorted)[2] >= x[2] THEN <<Head(sorted)>> \o InsertByScore(Tail(sorted), x)
         ELSE <<x>> \o sorted

RECURSIVE SortByScoreDesc(_)
SortByScoreDesc(entries) ==
    IF entries = <<>> THEN <<>>
    ELSE InsertByScore(SortByScoreDesc(SubSeq(entries, 1, Len(entries) - 1)),
                       entries[Len(entries)])

\* The sort without reverse=True.
QuickScanScoresAscending(store) ==
    LET d == SortByScoreDesc(ScanAll(store))
    IN  [i \in 1..Len(d) |-> d[Len(d) + 1 - i]]

\* chimera_scores after chimera_scores.sort(key=lambda x: x[1], reverse=True)
QuickScanScores(store) == SortByScoreDesc(ScanAll(store))

\* The segment_leaders list and the segments of each contig the loop segments,
\* in loop order.
RECURSIVE ScanLog(_)
ScanLog(store) ==
    IF store = <<>> THEN <<>>
    ELSE LET length == ContigLength(Head(store).samples)
         IN  (IF TooShort(length) THEN <<>>
              ELSE <<<<Head(store).name,
                       ScanLeaders(Head(store).samples, 0,
                                   length \div ScreeningSegments, length),
                       ScanSegments(Head(store).samples,
                                    length \div ScreeningSegments, length)>>>>)
             \o ScanLog(Tail(store))

\* The assessment with > for >=.
ScanAssessmentStrict(score) ==
    IF 10 * score > 8 * ScoreScale THEN "LIKELY CHIMERIC"
    ELSE IF 10 * score > 6 * ScoreScale THEN "POSSIBLY CHIMERIC"
    ELSE "Likely genuine"

\* The assessment printed beside a score: >= 0.8, >= 0.6, below.
ScanAssessment(score) ==
    IF 10 * score >= 8 * ScoreScale THEN "LIKELY CHIMERIC"
    ELSE IF 10 * score >= 6 * ScoreScale THEN "POSSIBLY CHIMERIC"
    ELSE "Likely genuine"

ScanReport(scores) ==
    [i \in 1..Len(scores) |->
        <<scores[i][1], scores[i][2], scores[i][3], scores[i][4],
          ScanAssessment(scores[i][2])>>]

(***************************************************************************)
(* identify_chimeric_contigs.                                              *)
(***************************************************************************)
RECURSIVE IdentifyLeaders(_, _, _, _)
IdentifyLeaders(contig_data, seg_idx, size, length) ==
    IF seg_idx >= ScreeningSegments THEN <<>>
    ELSE LET segment_coverage ==
                 SegmentCoverage(contig_data, SegStart(seg_idx, size),
                                 SegEnd(seg_idx, size, ScreeningSegments, length),
                                 ScreeningMinCoverage)
             rest == IdentifyLeaders(contig_data, seg_idx + 1, size, length)
         IN  IF segment_coverage # <<>> THEN <<Leader(segment_coverage)>> \o rest
             ELSE rest

\* The score test with > for >=.
ExceedsMinScore(score, threshold) == score > threshold

\* if chimera_score >= min_score
ReachesMinScore(score, threshold) == score >= threshold

IdentifyContig(contig, threshold) ==
    LET length == ContigLength(contig.samples)
        leaders == IdentifyLeaders(contig.samples, 0, length \div ScreeningSegments, length)
        unique == UniqueLeaders(leaders)
    IN  IF length < MinContigLength THEN <<>>
        ELSE IF Len(leaders) > 0
                  /\ ReachesMinScore(ChimeraScore(unique, Len(leaders)), threshold)
             THEN <<<<contig.name, ChimeraScore(unique, Len(leaders)), unique>>>>
        ELSE <<>>

RECURSIVE IdentifyAll(_, _)
IdentifyAll(store, threshold) ==
    IF store = <<>> THEN <<>>
    ELSE IdentifyContig(Head(store), threshold) \o IdentifyAll(Tail(store), threshold)

RECURSIVE IdentifyLog(_)
IdentifyLog(store) ==
    IF store = <<>> THEN <<>>
    ELSE LET length == ContigLength(Head(store).samples)
         IN  (IF length < MinContigLength THEN <<>>
              ELSE <<<<Head(store).name,
                       IdentifyLeaders(Head(store).samples, 0,
                                       length \div ScreeningSegments, length),
                       ScanSegments(Head(store).samples,
                                    length \div ScreeningSegments, length)>>>>)
             \o IdentifyLog(Tail(store))

\* return sorted(chimeric_contigs, key=lambda x: x[1], reverse=True)
IdentifyResult(store, threshold) == SortByScoreDesc(IdentifyAll(store, threshold))

\* The contig names printed without the [:10].
AvailableAll(store) == [i \in 1..Len(store) |-> store[i].name]

\* available = list(coverage_data.keys())[:10]
Available(store) ==
    [i \in 1..(IF Len(store) < AvailableShown THEN Len(store) ELSE AvailableShown) |->
        store[i].name]

(***************************************************************************)
(* The state machine.                                                      *)
(***************************************************************************)
\* No file written yet.
NoFiles == [f \in {} |-> <<>>]

\* open(path, 'w') and write: the file is created or replaced, the others stay.
WriteFile(files, path, content) ==
    [f \in DOMAIN files \cup {path} |-> IF f = path THEN content ELSE files[f]]

\* No visualization script has run in the working directory.
NoFilter ==
    /\ min_mean_coverage = 0
    /\ max_samples = 0
    /\ filtered_coverage_data = <<>>
    /\ total_samples_before = 0
    /\ total_samples_after = 0
    /\ html = NoFiles
    /\ summary = NoFiles

NoCall ==
    /\ chimera_scores = <<>>
    /\ report = <<>>
    /\ chimeric_contigs = <<>>
    /\ min_score = 0
    /\ contig_name = None
    /\ min_coverage = 0
    /\ all_positions_len = 0
    /\ contig_length = 0
    /\ num_segments = 0
    /\ segment_size = 0
    /\ segments = <<>>
    /\ top_samples = <<>>
    /\ segment_coverages = <<>>
    /\ segment_leaders = <<>>
    /\ unique_leaders = 0
    /\ assessment = None
    /\ available = <<>>
    /\ leader_log = <<>>
    /\ NoFilter

Init ==
    /\ all_contigs = <<>>
    /\ fasta_exists = TRUE
    /\ coverage_dir_exists = TRUE
    /\ coverage_data \in StoreInputs
    /\ pc = "idle"
    /\ NoCall

\* The scan with the skipped contigs removed from the store as it goes.
QuickChimeraScanDroppingSkipped ==
    /\ pc = "idle"
    /\ pc' = "scanned"
    /\ chimera_scores' = QuickScanScores(coverage_data)
    /\ report' = ScanReport(QuickScanScores(coverage_data))
    /\ leader_log' = ScanLog(coverage_data)
    /\ coverage_data' =
          SelectSeq(coverage_data, LAMBDA c : ~TooShort(ContigLength(c.samples)))
    /\ UNCHANGED <<chimeric_contigs, min_score, contig_name,
                   min_coverage, all_positions_len, contig_length, num_segments,
                   segment_size, segments, top_samples, segment_coverages,
                   segment_leaders, unique_leaders, assessment, available>>
    /\ UNCHANGED filter_vars

\* quick_chimera_scan()
QuickChimeraScan ==
    /\ pc = "idle"
    /\ pc' = "scanned"
    /\ chimera_scores' = QuickScanScores(coverage_data)
    /\ report' = ScanReport(QuickScanScores(coverage_data))
    /\ leader_log' = ScanLog(coverage_data)
    /\ UNCHANGED <<coverage_data, chimeric_contigs, min_score, contig_name,
                   min_coverage, all_positions_len, contig_length, num_segments,
                   segment_size, segments, top_samples, segment_coverages,
                   segment_leaders, unique_leaders, assessment, available>>
    /\ UNCHANGED filter_vars

\* identify_chimeric_contigs(min_score)
IdentifyChimericContigs ==
    /\ pc = "idle"
    /\ \E t \in MinScores :
          /\ min_score' = t
          /\ chimeric_contigs' = IdentifyResult(coverage_data, t)
    /\ leader_log' = IdentifyLog(coverage_data)
    /\ pc' = "identified"
    /\ UNCHANGED <<coverage_data, chimera_scores, report, contig_name,
                   min_coverage, all_positions_len, contig_length, num_segments,
                   segment_size, segments, top_samples, segment_coverages,
                   segment_leaders, unique_leaders, assessment, available>>
    /\ UNCHANGED filter_vars

\* analyze_coverage_distribution(contig_name, min_coverage), contig in the store.
\* contig_length // num_segments raises ZeroDivisionError when num_segments is
\* 0, and the call ends there.
AnalyzeCoverageDistribution ==
    /\ pc = "idle"
    /\ \E name \in StoreNames(coverage_data), threshold \in MinCoverages :
          LET contig_data == Lookup(coverage_data, name)
              npos == Cardinality(AllPositions(contig_data))
              length == ContigLength(contig_data)
              nseg == NumSegments(npos)
          IN  /\ contig_name' = name
              /\ min_coverage' = threshold
              /\ all_positions_len' = npos
              /\ contig_length' = length
              /\ num_segments' = nseg
              /\ IF nseg = 0
                 THEN /\ pc' = "raised"
                      /\ UNCHANGED <<segment_size, segments, top_samples,
                                     segment_coverages, segment_leaders,
                                     unique_leaders, assessment>>
                 ELSE LET size == length \div nseg
                          leaders == DetailLeaders(contig_data, nseg, size, length,
                                                   threshold)
                      IN  /\ pc' = "analyzed"
                          /\ segment_size' = size
                          /\ segments' = DetailSegments(nseg, size, length)
                          /\ top_samples' =
                                 DetailTopSamples(contig_data, nseg, size, length,
                                                  threshold)
                          /\ segment_coverages' =
                                 DetailCoverages(contig_data, nseg, size, length,
                                                 threshold)
                          /\ segment_leaders' = leaders
                          /\ unique_leaders' = UniqueLeaders(leaders)
                          /\ assessment' = DetailAssessment(UniqueLeaders(leaders))
    /\ UNCHANGED <<coverage_data, chimera_scores, report, chimeric_contigs,
                   min_score, available, leader_log>>
    /\ UNCHANGED filter_vars

\* analyze_coverage_distribution(contig_name, ...), contig not in the store
AnalyzeMissingContig ==
    /\ pc = "idle"
    /\ \E i \in 1..Len(ContigNames) :
          /\ ContigNames[i] \notin StoreNames(coverage_data)
          /\ contig_name' = ContigNames[i]
    /\ \E threshold \in MinCoverages : min_coverage' = threshold
    /\ available' = Available(coverage_data)
    /\ pc' = "not_found"
    /\ UNCHANGED <<coverage_data, chimera_scores, report, chimeric_contigs,
                   min_score, all_positions_len, contig_length, num_segments,
                   segment_size, segments, top_samples, segment_coverages,
                   segment_leaders, unique_leaders, assessment, leader_log>>
    /\ UNCHANGED filter_vars

\* The call returns: its locals and its printed output are gone; the files
\* it wrote stay.
Return ==
    /\ pc \in {"scanned", "identified", "analyzed", "not_found", "raised", "filtered",
              "visualized", "generated", "exited"}
    /\ pc' = "idle"
    /\ chimera_scores' = <<>>
    /\ report' = <<>>
    /\ chimeric_contigs' = <<>>
    /\ min_score' = 0
    /\ contig_name' = None
    /\ min_coverage' = 0
    /\ all_positions_len' = 0
    /\ contig_length' = 0
    /\ num_segments' = 0
    /\ segment_size' = 0
    /\ segments' = <<>>
    /\ top_samples' = <<>>
    /\ segment_coverages' = <<>>
    /\ segment_leaders' = <<>>
    /\ unique_leaders' = 0
    /\ assessment' = None
    /\ available' = <<>>
    /\ leader_log' = <<>>
    /\ min_mean_coverage' = 0
    /\ max_samples' = 0
    /\ filtered_coverage_data' = <<>>
    /\ total_samples_before' = 0
    /\ total_samples_after' = 0
    /\ UNCHANGED <<coverage_data, all_contigs, fasta_exists, coverage_dir_exists,
                   html, summary>>

Next ==
    \/ QuickChimeraScan
    \/ IdentifyChimericContigs
    \/ AnalyzeCoverageDistribution
    \/ AnalyzeMissingContig
    \/ Return

Spec == Init /\ [][Next]_vars

(***************************************************************************)
(* The segment-count rule and the division into segments on their own,     *)
(* over every count of distinct positions up to MaxPositions and every     *)
(* contig_length that many distinct positions can have with at most MaxGap *)
(* unrecorded positions below it.                                          *)
(***************************************************************************)
\* max(all_positions) for n >= 1 distinct positions 0, 1, ...: at least n - 1.
LengthsOf(n) == (n - 1)..(n - 1 + MaxGap)

InitCount ==
    /\ all_contigs = <<>>
    /\ fasta_exists = TRUE
    /\ coverage_dir_exists = TRUE
    /\ coverage_data = <<>>
    /\ pc = "idle"
    /\ chimera_scores = <<>>
    /\ report = <<>>
    /\ chimeric_contigs = <<>>
    /\ min_score = 0
    /\ contig_name = None
    /\ min_coverage = 0
    /\ all_positions_len \in 1..MaxPositions
    /\ contig_length \in LengthsOf(all_positions_len)
    /\ num_segments = 0
    /\ segment_size = 0
    /\ segments = <<>>
    /\ top_samples = <<>>
    /\ segment_coverages = <<>>
    /\ segment_leaders = <<>>
    /\ unique_leaders = 0
    /\ assessment = None
    /\ available = <<>>
    /\ leader_log = <<>>
    /\ NoFilter

\* Lines 34-36 of analyze_coverage_distribution applied to len(all_positions).
CountSegments ==
    /\ pc = "idle"
    /\ pc' = "counted"
    /\ num_segments' = NumSegments(all_positions_len)
    /\ UNCHANGED <<coverage_data, chimera_scores, report, chimeric_contigs,
                   min_score, contig_name, min_coverage, all_positions_len,
                   contig_length, segment_size, segments, top_samples,
                   segment_coverages, segment_leaders, unique_leaders, assessment,
                   available, leader_log>>
    /\ UNCHANGED filter_vars

\* Lines 38 and 44-46 of analyze_coverage_distribution: segment_size and the
\* bounds of each segment.
DivideIntoSegments ==
    /\ pc = "counted"
    /\ pc' = "divided"
    /\ segment_size' = contig_length \div num_segments
    /\ segments' = DetailSegments(num_segments, contig_length \div num_segments,
                                  contig_length)
    /\ UNCHANGED <<coverage_data, chimera_scores, report, chimeric_contigs,
                   min_score, contig_name, min_coverage, all_positions_len,
                   contig_length, num_segments, top_samples, segment_coverages,
                   segment_leaders, unique_leaders, assessment, available,
                   leader_log>>
    /\ UNCHANGED filter_vars

\* Lines 143-153 of quick_chimera_scan: 5 segments for a contig not skipped.
DivideIntoFive ==
    /\ pc = "idle"
    /\ ~TooShort(contig_length)
    /\ pc' = "divided"
    /\ num_segments' = ScreeningSegments
    /\ segment_size' = contig_length \div ScreeningSegments
    /\ segments' = DetailSegments(ScreeningSegments,
                                  contig_length \div ScreeningSegments, contig_length)
    /\ UNCHANGED <<coverage_data, chimera_scores, report, chimeric_contigs,
                   min_score, contig_name, min_coverage, all_positions_len,
                   contig_length, top_samples, segment_coverages,
                   segment_leaders, unique_leaders, assessment, available,
                   leader_log>>
    /\ UNCHANGED filter_vars

NextCount == CountSegments \/ DivideIntoSegments \/ DivideIntoFive

SpecCount == InitCount /\ [][NextCount]_vars

(***************************************************************************)
(* The detailed mode on degenerate contigs.                                *)
(***************************************************************************)
InitDegenerate ==
    /\ all_contigs = <<>>
    /\ fasta_exists = TRUE
    /\ coverage_dir_exists = TRUE
    /\ coverage_data \in DegenerateStores
    /\ pc = "idle"
    /\ NoCall

NextDegenerate == AnalyzeCoverageDistribution \/ Return

SpecDegenerate == InitDegenerate /\ [][NextDegenerate]_vars

(***************************************************************************)
(* The detailed mode on contigs with more candidates than a leaderboard    *)
(* lists.                                                                  *)
(***************************************************************************)
InitBoard ==
    /\ all_contigs = <<>>
    /\ fasta_exists = TRUE
    /\ coverage_dir_exists = TRUE
    /\ coverage_data \in BoardStores
    /\ pc = "idle"
    /\ NoCall

NextBoard == AnalyzeCoverageDistribution \/ Return

SpecBoard == InitBoard /\ [][NextBoard]_vars

(***************************************************************************)
(* The Chimera Scorer on its own, over every sequence of segment leaders   *)
(* of up to MaxLeaders entries: the ratio score and its assessment as      *)
(* quick_chimera_scan computes them from a contig's segment_leaders, and   *)
(* the unique-leader count and its assessment as                           *)
(* analyze_coverage_distribution computes them.                            *)
(***************************************************************************)
LeaderSequences ==
    UNION {[1..n -> ScoreSamples \cup {None}] : n \in 0..MaxLeaders}

InitScore ==
    /\ all_contigs = <<>>
    /\ fasta_exists = TRUE
    /\ coverage_dir_exists = TRUE
    /\ coverage_data = <<>>
    /\ pc = "idle"
    /\ chimera_scores = <<>>
    /\ report = <<>>
    /\ chimeric_contigs = <<>>
    /\ min_score = 0
    /\ contig_name = None
    /\ min_coverage = 0
    /\ all_positions_len = 0
    /\ contig_length = 0
    /\ num_segments = 0
    /\ segment_size = 0
    /\ segments = <<>>
    /\ top_samples = <<>>
    /\ segment_coverages = <<>>
    /\ segment_leaders \in LeaderSequences
    /\ unique_leaders = 0
    /\ assessment = None
    /\ available = <<>>
    /\ leader_log = <<>>
    /\ NoFilter

\* Lines 174-178 and 188-196 of quick_chimera_scan for one contig: its
\* segment_leaders hold no None and at most one leader per segment.
ScoreLeaders ==
    /\ pc = "idle"
    /\ Len(segment_leaders) <= ScreeningSegments
    /\ \A j \in 1..Len(segment_leaders) : segment_leaders[j] # None
    /\ pc' = "scored"
    /\ chimera_scores' =
          (IF Len(segment_leaders) > 0
           THEN <<ScanEntry(ContigNames[1], segment_leaders)>> ELSE <<>>)
    /\ report' =
          ScanReport(IF Len(segment_leaders) > 0
                     THEN <<ScanEntry(ContigNames[1], segment_leaders)>> ELSE <<>>)
    /\ UNCHANGED <<coverage_data, chimeric_contigs, min_score, contig_name,
                   min_coverage, all_positions_len, contig_length, num_segments,
                   segment_size, segments, top_samples, segment_coverages,
                   segment_leaders, unique_leaders, assessment, available,
                   leader_log>>
    /\ UNCHANGED filter_vars

\* Lines 109-119 of analyze_coverage_distribution: its segment_leaders hold
\* one entry per segment, at least 3.
AssessLeaders ==
    /\ pc = "idle"
    /\ Len(segment_leaders) >= MinSegments
    /\ pc' = "assessed"
    /\ num_segments' = Len(segment_leaders)
    /\ unique_leaders' = UniqueLeaders(segment_leaders)
    /\ assessment' = DetailAssessment(UniqueLeaders(segment_leaders))
    /\ UNCHANGED <<coverage_data, chimera_scores, report, chimeric_contigs,
                   min_score, contig_name, min_coverage, all_positions_len,
                   contig_length, segment_size, segments, top_samples,
                   segment_coverages, segment_leaders, available, leader_log>>
    /\ UNCHANGED filter_vars

\* Lines 57-62 of identify_chimeric_contigs for one contig.
ExtractLeaders ==
    /\ pc = "idle"
    /\ Len(segment_leaders) <= ScreeningSegments
    /\ \A j \in 1..Len(segment_leaders) : segment_leaders[j] # None
    /\ pc' = "extracted"
    /\ \E t \in MinScores :
          /\ min_score' = t
          /\ chimeric_contigs' =
                (IF Len(segment_leaders) > 0
                    /\ ReachesMinScore(ChimeraScore(UniqueLeaders(segment_leaders),
                                                    Len(segment_leaders)), t)
                 THEN <<<<ContigNames[1],
                          ChimeraScore(UniqueLeaders(segment_leaders),
                                       Len(segment_leaders)),
                          UniqueLeaders(segment_leaders)>>>>
                 ELSE <<>>)
    /\ UNCHANGED <<coverage_data, chimera_scores, report, contig_name,
                   min_coverage, all_positions_len, contig_length, num_segments,
                   segment_size, segments, top_samples, segment_coverages,
                   segment_leaders, unique_leaders, assessment, available,
                   leader_log>>
    /\ UNCHANGED filter_vars

NextScore == ScoreLeaders \/ AssessLeaders \/ ExtractLeaders

SpecScore == InitScore /\ [][NextScore]_vars

(***************************************************************************)
(* create_filtered_visualization: for each contig of the assembly that is  *)
(* in the store, the best max_samples samples whose whole-contig mean      *)
(* reaches min_mean_coverage.                                              *)
(***************************************************************************)
FilterSamples == <<"A", "B", "C">>

\* Tracks as the loader builds them (sorted by position, never empty), with
\* means 4, 6 and 5.
FilterTracks ==
    {<<[position |-> 0, coverage |-> 4]>>,
     <<[position |-> 0, coverage |-> 6]>>,
     <<[position |-> 0, coverage |-> 4], [position |-> 200, coverage |-> 6]>>}

RECURSIVE PickSamples(_, _, _)
PickSamples(order, P, f) ==
    IF order = <<>> THEN <<>>
    ELSE IF Head(order) \in P
         THEN <<[sample |-> Head(order), points |-> f[Head(order)]]>>
                  \o PickSamples(Tail(order), P, f)
         ELSE PickSamples(Tail(order), P, f)

\* Every contig_data over some of the samples, in file order.
FilterContigDatas ==
    UNION {{PickSamples(FilterSamples, P, f) : f \in [P -> FilterTracks]} :
              P \in (SUBSET {"A", "B", "C"}) \ {{}}}

SecondContigDatas ==
    {<<[sample |-> "A", points |-> <<[position |-> 0, coverage |-> 4]>>]>>,
     <<[sample |-> "A", points |-> <<[position |-> 0, coverage |-> 6]>>],
       [sample |-> "B", points |-> <<[position |-> 0, coverage |-> 4],
                                     [position |-> 200, coverage |-> 6]>>]>>}

\* Stores of no contig, of contig_1, and of contig_2 followed by contig_1.
FilterStores ==
    {<<>>}
    \cup {<<[name |-> ContigNames[1], samples |-> cd]>> : cd \in FilterContigDatas}
    \cup {<<[name |-> ContigNames[2], samples |-> cd2],
            [name |-> ContigNames[1], samples |-> cd]>> :
              cd \in FilterContigDatas, cd2 \in SecondContigDatas}

\* get_contigs_from_fasta: the names of the assembly's contigs, in file order;
\* a name need not be in the store, and a FASTA file may repeat a header.
AssemblyLists ==
    UNION {[1..n -> {ContigNames[1], ContigNames[2], ContigNames[3]}] : n \in 0..MaxAssembly}

MinMeanCoverages == {1, 5}

\* sample_stats: in sample order, each sample with points whose whole-contig
\* mean reaches min_mean_coverage, with its mean (total over count).
RECURSIVE SampleStats(_, _)
SampleStats(contig_data, min_mean) ==
    IF contig_data = <<>> THEN <<>>
    ELSE LET coverage_points == Head(contig_data).points
             rest == SampleStats(Tail(contig_data), min_mean)
         IN  IF coverage_points # <<>>
                  /\ MeanAtLeast(TotalCov(coverage_points), Len(coverage_points), min_mean)
             THEN <<[sample |-> Head(contig_data).sample,
                     total  |-> TotalCov(coverage_points),
                     count  |-> Len(coverage_points),
                     points |-> coverage_points]>> \o rest
             ELSE rest

\* sample_stats left in sample order.
SortStatsKeepOrder(sample_stats) == sample_stats

\* sample_stats.sort(key=mean, reverse=True): stable, highest mean first.
SortStats(sample_stats) == SortByMeanDesc(sample_stats)

\* sample_stats[:max_samples], with Python's reading of a negative bound.
KeepTop(sample_stats, n) ==
    LET len == Len(sample_stats)
        stop == IF n >= 0 THEN (IF n < len THEN n ELSE len)
                ELSE (IF len + n > 0 THEN len + n ELSE 0)
    IN  SubSeq(sample_stats, 1, stop)

\* {sample: coverage_points for sample, _, coverage_points in top_samples}
KeptSamples(top) ==
    [i \in 1..Len(top) |-> [sample |-> top[i].sample, points |-> top[i].points]]

\* filtered_coverage_data[contig] = value: a new key goes last, a key already
\* there keeps its place.
PutContig(data, contig, value) ==
    IF \E i \in 1..Len(data) : data[i].name = contig
    THEN [i \in 1..Len(data) |->
             IF data[i].name = contig THEN [name |-> contig, samples |-> value]
             ELSE data[i]]
    ELSE Append(data, [name |-> contig, samples |-> value])

\* The loop over all_contigs, from the totals and filtered data so far.
RECURSIVE FilterContigs(_, _, _, _, _)
FilterContigs(contigs, store, min_mean, n, acc) ==
    IF contigs = <<>> THEN acc
    ELSE LET contig == Head(contigs)
         IN  IF contig \notin StoreNames(store)
             THEN FilterContigs(Tail(contigs), store, min_mean, n, acc)
             ELSE LET contig_data == Lookup(store, contig)
                      top == KeepTop(SortStats(SampleStats(contig_data, min_mean)), n)
                  IN  FilterContigs(Tail(contigs), store, min_mean, n,
                          [before |-> acc.before + Len(contig_data),
                           after  |-> IF top # <<>> THEN acc.after + Len(top) ELSE acc.after,
                           data   |-> IF top # <<>>
                                      THEN PutContig(acc.data, contig, KeptSamples(top))
                                      ELSE acc.data])

(***************************************************************************)
(* The other two callers of generate_html: create_chimeric_visualization   *)
(* and the viewer's main().                                                *)
(***************************************************************************)
\* Stores with contigs long enough to be screened: two contigs of which both
\* are flagged at 0.6, one contig led by two samples, one contig led by one.
VisualStores ==
    {<<[name |-> ContigNames[1],
        samples |-> <<[sample |-> "A", points |-> <<[position |-> 0, coverage |-> 6],
                                                    [position |-> 200, coverage |-> 6],
                                                    [position |-> 1000, coverage |-> 6]>>],
                      [sample |-> "B", points |-> <<[position |-> 400, coverage |-> 6]>>],
                      [sample |-> "C", points |-> <<[position |-> 600, coverage |-> 9],
                                                    [position |-> 800, coverage |-> 9]>>]>>],
       [name |-> ContigNames[2],
        samples |-> <<[sample |-> "A", points |-> <<[position |-> 0, coverage |-> 12],
                                                    [position |-> 1000, coverage |-> 12]>>]>>]>>,
     <<[name |-> ContigNames[1],
        samples |-> <<[sample |-> "A", points |-> <<[position |-> 0, coverage |-> 6],
                                                    [position |-> 1000, coverage |-> 6]>>],
                      [sample |-> "B", points |-> <<[position |-> 500, coverage |-> 6]>>]>>]>>,
     <<[name |-> ContigNames[1],
        samples |-> <<[sample |-> "A", points |-> <<[position |-> 0, coverage |-> 6],
                                                    [position |-> 200, coverage |-> 6],
                                                    [position |-> 400, coverage |-> 6],
                                                    [position |-> 600, coverage |-> 6],
                                                    [position |-> 1000, coverage |-> 6]>>]>>]>>}

\* output_suffix: "analysis" is the script's default.
OutputSuffixes == {"analysis", "strict"}

\* chimeric_names = [contig[0] for contig in chimeric_contigs]
ChimericNames(chimeric) == [i \in 1..Len(chimeric) |-> chimeric[i][1]]

\* {contig: all_coverage_data[contig] for contig in chimeric_names
\*  if contig in all_coverage_data}
ChimericData(store, chimeric_names) ==
    LET present == SelectSeq(chimeric_names, LAMBDA c : c \in StoreNames(store))
    IN  [i \in 1..Len(present) |->
            [name |-> present[i], samples |-> Lookup(store, present[i])]]

\* all_samples: the samples of the contigs kept.
AllSamples(data) ==
    UNION {{data[i].samples[j].sample : j \in 1..Len(data[i].samples)} :
              i \in 1..Len(data)}

ChimericOutputFile(output_suffix) == "chimeric_contigs_" \o output_suffix \o ".html"

ChimericSummaryFile(output_suffix) == "chimeric_contigs_summary_" \o output_suffix \o ".txt"

\* create_chimeric_visualization(min_score, output_suffix): nothing is written
\* when no contig is flagged; otherwise the flagged contigs, in result order
\* and with all their samples, go to the HTML file, and the parameters, the
\* counts and the flagged list to the summary report.
CreateChimericVisualization ==
    /\ pc = "idle"
    /\ \E t \in MinScores, output_suffix \in OutputSuffixes :
          LET chimeric == IdentifyResult(coverage_data, t)
              chimeric_names == ChimericNames(chimeric)
              data == ChimericData(coverage_data, chimeric_names)
          IN  /\ min_score' = t
              /\ chimeric_contigs' = chimeric
              /\ IF chimeric = <<>>
                 THEN UNCHANGED <<filtered_coverage_data, html, summary>>
                 ELSE /\ filtered_coverage_data' = data
                      /\ html' = WriteFile(html, ChimericOutputFile(output_suffix),
                                           <<chimeric_names, data>>)
                      /\ summary' = WriteFile(summary, ChimericSummaryFile(output_suffix),
                                        [min_score |-> t,
                                         flagged |-> chimeric,
                                         contigs |-> Len(chimeric_names),
                                         samples |-> Cardinality(AllSamples(data)),
                                         visualization |-> ChimericOutputFile(output_suffix)])
    /\ leader_log' = IdentifyLog(coverage_data)
    /\ pc' = "visualized"
    /\ UNCHANGED <<coverage_data, all_contigs, fasta_exists, coverage_dir_exists,
                   min_mean_coverage, max_samples, total_samples_before, total_samples_after, chimera_scores,
                   report, contig_name, min_coverage, all_positions_len,
                   contig_length, num_segments, segment_size, segments,
                   top_samples, segment_coverages, segment_leaders,
                   unique_leaders, assessment, available>>

\* config['output_path'] by default
ViewerOutputFile == "interactive_coverage_viewer.html"

\* main() of generate_interactive_html.py: sys.exit(1) when the FASTA file
\* or the coverage directory does not exist; otherwise the assembly's names
\* and the whole store, unfiltered, go to the viewer file.
Main ==
    /\ pc = "idle"
    /\ IF fasta_exists /\ coverage_dir_exists
       THEN /\ html' = WriteFile(html, ViewerOutputFile, <<all_contigs, coverage_data>>)
            /\ pc' = "generated"
       ELSE /\ html' = html
            /\ pc' = "exited"
    /\ UNCHANGED <<coverage_data, all_contigs, fasta_exists, coverage_dir_exists,
                   min_mean_coverage, max_samples,
                   filtered_coverage_data, total_samples_before,
                   total_samples_after, summary, chimera_scores, report,
                   chimeric_contigs, min_score, contig_name, min_coverage,
                   all_positions_len, contig_length, num_segments, segment_size,
                   segments, top_samples, segment_coverages, segment_leaders,
                   unique_leaders, assessment, available, leader_log>>

\* Without the coverage directory glob finds no file and the store is empty;
\* without the FASTA file no name is read.
InitFilter ==
    /\ coverage_dir_exists \in BOOLEAN
    /\ fasta_exists \in BOOLEAN
    /\ coverage_data \in (IF coverage_dir_exists THEN FilterStores \cup VisualStores
                          ELSE {<<>>})
    /\ all_contigs \in (IF fasta_exists THEN AssemblyLists ELSE {<<>>})
    /\ pc = "idle"
    /\ NoCall

\* output_file = 'all_contigs_filtered.html'
FilteredOutputFile == "all_contigs_filtered.html"

\* create_filtered_visualization(min_mean_coverage, max_samples): the filtered
\* data and the totals; the data-reduction line divides by
\* total_samples_before and raises when it is 0, before generate_html is
\* reached, so that no file is written.  Without the FASTA file
\* get_contigs_from_fasta raises on open, before anything is filtered.
CreateFilteredVisualization ==
    /\ pc = "idle"
    /\ \E m \in MinMeanCoverages, n \in 0..MaxCap :
          LET res == FilterContigs(all_contigs, coverage_data, m, n,
                                   [before |-> 0, after |-> 0, data |-> <<>>])
          IN  /\ min_mean_coverage' = m
              /\ max_samples' = n
              /\ filtered_coverage_data' = res.data
              /\ total_samples_before' = res.before
              /\ total_samples_after' = res.after
              /\ IF ~fasta_exists \/ res.before = 0
                 THEN /\ pc' = "raised"
                      /\ html' = html
                 ELSE /\ pc' = "filtered"
                      /\ html' = WriteFile(html, FilteredOutputFile,
                                           <<all_contigs, res.data>>)
    /\ UNCHANGED <<coverage_data, all_contigs, fasta_exists, coverage_dir_exists,
                   summary, chimera_scores, report,
                   chimeric_contigs, min_score, contig_name, min_coverage,
                   all_positions_len, contig_length, num_segments, segment_size,
                   segments, top_samples, segment_coverages, segment_leaders,
                   unique_leaders, assessment, available, leader_log>>

NextFilter ==
    \/ CreateFilteredVisualization
    \/ CreateChimericVisualization
    \/ Main
    \/ Return

SpecFilter == InitFilter /\ [][NextFilter]_vars

(***************************************************************************)
(* Claims.                                                                 *)
(***************************************************************************)
\* Some recorded position of the contig is at least 1000.
LongEnough(contig_data) ==
    \E i \in 1..Len(contig_data) :
        \E k \in 1..Len(contig_data[i].points) :
            contig_data[i].points[k].position >= 1000

\* Sample i's points of the contig that lie in [lo, hi): how many, and their sum.
InRange(contig_data, i, lo, hi) ==
    {k \in 1..Len(contig_data[i].points) :
        lo <= contig_data[i].points[k].position
        /\ contig_data[i].points[k].position < hi}

RECURSIVE SumCoverage(_, _)
SumCoverage(points, ks) ==
    IF ks = {} THEN 0
    ELSE LET k == CHOOSE x \in ks : TRUE
         IN  points[k].coverage + SumCoverage(points, ks \ {k})

RangeSum(contig_data, i, lo, hi) ==
    SumCoverage(contig_data[i].points, InRange(contig_data, i, lo, hi))

RangeCount(contig_data, i, lo, hi) == Cardinality(InRange(contig_data, i, lo, hi))

\* The samples with a point in [lo, hi) whose mean there is at least t.
Candidates(contig_data, lo, hi, t) ==
    {i \in 1..Len(contig_data) :
        /\ RangeCount(contig_data, i, lo, hi) > 0
        /\ RangeSum(contig_data, i, lo, hi) >= t * RangeCount(contig_data, i, lo, hi)}

\* leader is right for [lo, hi): None iff there is no candidate, else a
\* candidate whose mean no sample with a point in the range exceeds.
LeaderIsRight(leader, contig_data, lo, hi, t) ==
    IF Candidates(contig_data, lo, hi, t) = {} THEN leader = None
    ELSE \E i \in Candidates(contig_data, lo, hi, t) :
            /\ contig_data[i].sample = leader
            /\ \A j \in 1..Len(contig_data) :
                  RangeCount(contig_data, j, lo, hi) > 0 =>
                      RangeSum(contig_data, i, lo, hi) * RangeCount(contig_data, j, lo, hi)
                         >= RangeSum(contig_data, j, lo, hi) * RangeCount(contig_data, i, lo, hi)

\* The exclusive upper bound of segment s: the next segment's start, and for
\* the final segment contig_length itself when the segment is half-open
\* (closed = 0), one past it when it is closed at contig_length (closed = 1).
SegUpper(s, size, nseg, length, closed) ==
    IF s < nseg - 1 THEN (s + 1) * size ELSE length + closed

\* The screening segments (0..4) of a contig that have a candidate, ascending.
LedSegmentsOf(contig_data, closed) ==
    LET length == ContigLength(contig_data)
    IN  SelectSeq(<<0, 1, 2, 3, 4>>,
                  LAMBDA s : Candidates(contig_data, s * (length \div 5),
                                        SegUpper(s, length \div 5, 5, length, closed),
                                        5) # {})

\* The segments (0-based) whose membership test accepts position p.
SegmentsHolding(p, nseg, size, length) ==
    {i \in 0..(nseg - 1) : InSegment(p, SegStart(i, size), SegEnd(i, size, nseg, length))}

\* C1: for a non-empty contig, every integer position 0..contig_length, the
\* largest recorded position included, is counted in exactly one segment, in
\* detailed mode (3..10 segments) and in screening mode (5 segments).
C1_SegmentsPartition ==
    /\ (pc = "analyzed" /\ all_positions_len > 0) =>
          \A p \in 0..contig_length :
              Cardinality(SegmentsHolding(p, num_segments, segment_size, contig_length)) = 1
    /\ pc = "scanned" =>
          \A c \in 1..Len(coverage_data) :
              LET length == ContigLength(coverage_data[c].samples)
              IN  LongEnough(coverage_data[c].samples) =>
                     \A p \in 0..length :
                         Cardinality(SegmentsHolding(p, 5, length \div 5, length)) = 1

\* C2: in screening and in chimeric-subset extraction the leader sequence of a
\* scored contig has one entry per segment (5), so the score is the number of
\* distinct leaders over 5.
C2_OneLeaderPerSegment ==
    /\ pc = "scanned" =>
          \A k \in 1..Len(leader_log) :
              (\E i \in 1..Len(chimera_scores) : chimera_scores[i][1] = leader_log[k][1])
                 => Len(leader_log[k][2]) = 5
    /\ pc = "identified" =>
          \A k \in 1..Len(leader_log) :
              (\E i \in 1..Len(chimeric_contigs) : chimeric_contigs[i][1] = leader_log[k][1])
                 => Len(leader_log[k][2]) = 5
    /\ pc = "scanned" =>
          \A i \in 1..Len(chimera_scores) :
              /\ chimera_scores[i][4] = 5
              /\ 5 * chimera_scores[i][2] = ScoreScale * chimera_scores[i][3]
    /\ pc = "identified" =>
          \A i \in 1..Len(chimeric_contigs) :
              5 * chimeric_contigs[i][2] = ScoreScale * chimeric_contigs[i][3]

\* No sample of the contig reaches the screening threshold in any of the 5
\* segments (the final one closed at contig_length).
AllBelowEverywhere(contig_data) == LedSegmentsOf(contig_data, 1) = <<>>

\* C3: a contig of length >= 1000 whose samples are all below the threshold in
\* every segment yields leaders that are all "none" and a result with score 0
\* and unique_leader_count 0.
C3_AllBelowScoresZero ==
    pc = "scanned" =>
        \A c \in 1..Len(coverage_data) :
            (LongEnough(coverage_data[c].samples)
             /\ AllBelowEverywhere(coverage_data[c].samples)) =>
                /\ \E i \in 1..Len(chimera_scores) :
                       /\ chimera_scores[i][1] = coverage_data[c].name
                       /\ chimera_scores[i][2] = 0
                       /\ chimera_scores[i][3] = 0
                /\ \E k \in 1..Len(leader_log) :
                       /\ leader_log[k][1] = coverage_data[c].name
                       /\ Len(leader_log[k][2]) = 5
                       /\ \A j \in 1..5 : leader_log[k][2][j] = None

\* The segment_leaders list logged for a contig.
LoggedLeaders(name) ==
    leader_log[CHOOSE k \in 1..Len(leader_log) : leader_log[k][1] = name][2]

\* C4: every screening and extraction result has score = unique_leader_count /
\* segment_count for the segment count the result is computed with (and, in
\* screening, records): len(segment_leaders), which is >= 1 (no division by
\* zero), with 0 <= unique_leader_count <= segment_count, so 0 <= score <= 1.
C4_ScoreIsLeaderRatio ==
    /\ pc = "scanned" =>
          \A i \in 1..Len(chimera_scores) :
              /\ chimera_scores[i][4] = Len(LoggedLeaders(chimera_scores[i][1]))
              /\ chimera_scores[i][4] >= 1
              /\ 0 <= chimera_scores[i][3]
              /\ chimera_scores[i][3] <= chimera_scores[i][4]
              /\ chimera_scores[i][2] * chimera_scores[i][4]
                    = ScoreScale * chimera_scores[i][3]
              /\ 0 <= chimera_scores[i][2]
              /\ chimera_scores[i][2] <= ScoreScale
    /\ pc = "identified" =>
          \A i \in 1..Len(chimeric_contigs) :
              LET n == Len(LoggedLeaders(chimeric_contigs[i][1]))
              IN  /\ n >= 1
                  /\ 0 <= chimeric_contigs[i][3]
                  /\ chimeric_contigs[i][3] <= n
                  /\ chimeric_contigs[i][2] * n = ScoreScale * chimeric_contigs[i][3]
                  /\ 0 <= chimeric_contigs[i][2]
                  /\ chimeric_contigs[i][2] <= ScoreScale

\* A scan result with fewer distinct leaders than leader entries (score 2/3).
C4_Witness ==
    /\ pc = "scanned"
    /\ \E i \in 1..Len(chimera_scores) :
          chimera_scores[i][3] = 2 /\ chimera_scores[i][4] = 3

Clamp(x, lo, hi) == IF x < lo THEN lo ELSE IF x > hi THEN hi ELSE x

\* C5: in detailed mode num_segments = clamp(distinct positions // 100, 3, 10),
\* so it is in 3..10 for every number of distinct positions.
C5_SegmentCountClamped ==
    pc \in {"counted", "analyzed"} =>
        /\ num_segments = Clamp(all_positions_len \div 100, 3, 10)
        /\ num_segments >= 3
        /\ num_segments <= 10

\* More than 1000 distinct positions: the count is held at 10.
C5_Witness ==
    pc = "counted" /\ all_positions_len > 1000 /\ num_segments = 10

ScreeningLeadersRight(log, closed) ==
    \A k \in 1..Len(log) :
        LET cd == Lookup(coverage_data, log[k][1])
            length == ContigLength(cd)
            led == LedSegmentsOf(cd, closed)
        IN  /\ Len(log[k][2]) = Len(led)
            /\ \A j \in 1..Len(led) :
                  LeaderIsRight(log[k][2][j], cd, led[j] * (length \div 5),
                                SegUpper(led[j], length \div 5, 5, length, closed), 5)

LeadersRight(closed) ==
    /\ pc = "analyzed" =>
          \A s \in 1..num_segments :
              LeaderIsRight(segment_leaders[s], Lookup(coverage_data, contig_name),
                            (s - 1) * segment_size,
                            SegUpper(s - 1, segment_size, num_segments,
                                     contig_length, closed),
                            min_coverage)
    /\ pc \in {"scanned", "identified"} => ScreeningLeadersRight(leader_log, closed)

\* C6: a segment's leader is "none" iff no sample with a point in the segment
\* has mean coverage >= min_coverage; otherwise it is a sample whose mean there
\* is >= min_coverage and >= every other sample's mean there (threshold 5 in
\* screening, the caller's in detailed mode).  The segments are the ranges of
\* the partition of [0, contig_length], the final one closed at contig_length.
C6_LeaderIsBestCandidate == LeadersRight(1)

\* The same over the points the code counts in a segment (the final segment
\* half-open, as its membership test has it): this holds.
LeaderOfCountedPointsIsBest == LeadersRight(0)

\* The samples that lead at least one entry of a leader sequence.
LeadingSamples(leaders) ==
    {x \in Samples : \E j \in 1..Len(leaders) : leaders[j] = x}

\* C7: "none" never counts toward unique_leader_count, which is the number of
\* distinct samples leading at least one segment.
C7_NoneNeverCounted ==
    /\ pc = "analyzed" =>
          unique_leaders = Cardinality(LeadingSamples(segment_leaders))
    /\ pc = "scanned" =>
          \A i \in 1..Len(chimera_scores) :
              chimera_scores[i][3]
                 = Cardinality(LeadingSamples(LoggedLeaders(chimera_scores[i][1])))
    /\ pc = "identified" =>
          \A i \in 1..Len(chimeric_contigs) :
              chimeric_contigs[i][3]
                 = Cardinality(LeadingSamples(LoggedLeaders(chimeric_contigs[i][1])))

\* Two samples lead and a segment has no leader.
C7_Witness ==
    /\ pc = "analyzed"
    /\ unique_leaders = 2
    /\ \E s \in 1..num_segments : segment_leaders[s] = None

StoreContig(name) == Lookup(coverage_data, name)

\* Screening results over entries (tuples led by the contig name) and the log
\* of segmented contigs: no entry for a contig shorter than 1000, at most one
\* entry per contig, and a contig is segmented iff its length is >= 1000.
LengthRuleHolds(entries, log) ==
    /\ \A i \in 1..Len(entries) : LongEnough(StoreContig(entries[i][1]))
    /\ \A i, j \in 1..Len(entries) : entries[i][1] = entries[j][1] => i = j
    /\ \A c \in 1..Len(coverage_data) :
          LongEnough(coverage_data[c].samples)
             <=> \E k \in 1..Len(log) : log[k][1] = coverage_data[c].name

\* C8: screening and extraction output no entry for a contig whose largest
\* recorded position is < 1000, at most one entry per contig, and exclude no
\* contig of length >= 1000 (1000 itself included) for its length: each one is
\* segmented, and in screening has an entry once it has a leader.
C8_ShortContigsExcluded ==
    /\ pc = "scanned" =>
          /\ LengthRuleHolds(chimera_scores, leader_log)
          /\ \A k \in 1..Len(leader_log) :
                Len(leader_log[k][2]) > 0
                   => \E i \in 1..Len(chimera_scores) :
                          chimera_scores[i][1] = leader_log[k][1]
    /\ pc = "identified" => LengthRuleHolds(chimeric_contigs, leader_log)

\* A short contig left out beside a contig of length exactly 1000 that is scored.
C8_Witness ==
    /\ pc = "scanned"
    /\ Len(coverage_data) = 2
    /\ ~LongEnough(coverage_data[1].samples)
    /\ ContigLength(coverage_data[2].samples) = 1000
    /\ Len(chimera_scores) = 1
    /\ chimera_scores[1][1] = coverage_data[2].name

\* C9: the screening result list is in non-increasing order of score.
C9_SortedByScoreDescending ==
    pc = "scanned" =>
        \A i \in 1..(Len(chimera_scores) - 1) :
            chimera_scores[i][2] >= chimera_scores[i + 1][2]

\* Three entries: the last contig of the store scores highest and is listed first.
C9_Witness ==
    /\ pc = "scanned"
    /\ Len(chimera_scores) = 3
    /\ chimera_scores[1][1] = "contig_3"
    /\ chimera_scores[1][2] > chimera_scores[2][2]
    /\ chimera_scores[2][2] = chimera_scores[3][2]

\* The screening entries with score >= t, as (contig, score, unique_leader_count).
ScreenedAtLeast(t) ==
    LET kept == SelectSeq(QuickScanScores(coverage_data), LAMBDA e : e[2] >= t)
    IN  [i \in 1..Len(kept) |-> <<kept[i][1], kept[i][2], kept[i][3]>>]

\* C10: extraction with threshold t returns exactly the screening entries with
\* score >= t (score = t included), in the order screening lists them.
C10_ExtractionFiltersScreening ==
    pc = "identified" => chimeric_contigs = ScreenedAtLeast(min_score)

\* An entry at the threshold is kept while a screening entry below it is dropped.
C10_Witness ==
    /\ pc = "identified"
    /\ \E i \in 1..Len(chimeric_contigs) : chimeric_contigs[i][2] = min_score
    /\ Len(QuickScanScores(coverage_data)) > Len(chimeric_contigs)

\* C11: no screening mode (detailed analysis, found or not, quick scan,
\* extraction) nor a call's return changes the Coverage Store: every step leaves
\* every contig, its samples and their point sequences as they were.
C11_StoreNeverModified == [][coverage_data' = coverage_data]_vars

\* A scan has skipped all three contigs of the store, which still holds them.
C11_Witness ==
    /\ pc = "scanned"
    /\ Len(coverage_data) = 3
    /\ chimera_scores = <<>>
    /\ \A c \in 1..3 : coverage_data[c].samples # <<>>

\* C12: the quick screening labels a result "LIKELY CHIMERIC" iff its score is
\* >= 0.8, "POSSIBLY CHIMERIC" iff 0.6 <= score < 0.8 and "Likely genuine" iff
\* score < 0.6; 5 distinct leaders over 5 segments score 1.0 and are "LIKELY
\* CHIMERIC", leaders [A, A, A, B, B] score 0.4 and are "Likely genuine".
C12_RatioAssessment ==
    pc = "scored" =>
        \A i \in 1..Len(report) :
            LET score == report[i][2]
                label == report[i][5]
            IN  /\ label = "LIKELY CHIMERIC" <=> 10 * score >= 8 * ScoreScale
                /\ label = "POSSIBLY CHIMERIC"
                      <=> (10 * score >= 6 * ScoreScale /\ 10 * score < 8 * ScoreScale)
                /\ label = "Likely genuine" <=> 10 * score < 6 * ScoreScale
                /\ (report[i][3] = 5 /\ report[i][4] = 5)
                      => (score = ScoreScale /\ label = "LIKELY CHIMERIC")
                /\ segment_leaders = <<"A", "A", "A", "B", "B">>
                      => (10 * score = 4 * ScoreScale /\ label = "Likely genuine")

\* The leaders [A, A, A, B, B] have been scored: 2 leaders over 5 segments.
C12_Witness ==
    /\ pc = "scored"
    /\ segment_leaders = <<"A", "A", "A", "B", "B">>
    /\ Len(report) = 1
    /\ report[1][3] = 2
    /\ report[1][4] = 5

\* C13: the detailed mode labels by the number of unique leaders alone,
\* whatever the number of segments and the ratio: <= 2 "LIKELY GENUINE", 3 or 4
\* "POSSIBLY CHIMERIC", more than 4 "LIKELY CHIMERIC"; 3 segments led by 3
\* distinct samples (ratio 1.0) are "POSSIBLY CHIMERIC".
C13_CountAssessment ==
    pc \in {"assessed", "analyzed"} =>
        /\ assessment = "LIKELY GENUINE" <=> unique_leaders \in {0, 1, 2}
        /\ assessment = "POSSIBLY CHIMERIC" <=> unique_leaders \in {3, 4}
        /\ assessment = "LIKELY CHIMERIC" <=> unique_leaders > 4
        /\ (num_segments = 3 /\ unique_leaders = 3) => assessment = "POSSIBLY CHIMERIC"

\* Three segments, each led by a different sample.
C13_Witness ==
    /\ pc = "assessed"
    /\ num_segments = 3
    /\ unique_leaders = 3
    /\ assessment = "POSSIBLY CHIMERIC"

\* C15: the detailed analysis of degenerate data never raises: a contig of
\* length 0 (the store holds no contig without a position; its least contig
\* has the one position 0) gets segment_size 0 and the forced 3 segments, all
\* of them empty ranges, every leader is "none", unique_leader_count is 0 and
\* an assessment is printed; a contig shorter than its segment count is
\* analysed to the end as well, one leader entry per segment.
C15_DegenerateDataCompletes ==
    /\ pc # "raised"
    /\ (pc = "analyzed" /\ contig_length = 0) =>
          /\ segment_size = 0
          /\ num_segments = 3
          /\ segments = <<<<0, 0>>, <<0, 0>>, <<0, 0>>>>
          /\ segment_leaders = <<None, None, None>>
          /\ unique_leaders = 0
          /\ assessment = "LIKELY GENUINE"
    /\ (pc = "analyzed" /\ contig_length < num_segments) =>
          /\ segment_size = 0
          /\ Len(segment_leaders) = num_segments
          /\ Len(top_samples) = num_segments
          /\ unique_leaders <= Cardinality(Samples)
          /\ assessment \in {"LIKELY GENUINE", "POSSIBLY CHIMERIC", "LIKELY CHIMERIC"}

\* A contig whose only recorded position is 0 has been analysed to the end.
C15_Witness ==
    /\ pc = "analyzed"
    /\ all_positions_len = 1
    /\ contig_length = 0
    /\ num_segments = 3
    /\ segment_leaders = <<None, None, None>>
    /\ assessment = "LIKELY GENUINE"

\* C16: a detailed analysis asked for a contig name the store does not hold
\* reports the name with the first 10 (or fewer) contig names of the store, in
\* store order, and ends there: no segment, leader or assessment is computed,
\* nothing is raised and the store is unchanged.
C16_MissingContigReported ==
    [][(pc = "idle" /\ contig_name' # None) =>
          IF contig_name' \in StoreNames(coverage_data)
          THEN pc' # "not_found" /\ available' = <<>>
          ELSE /\ pc' = "not_found"
               /\ coverage_data' = coverage_data
               /\ Len(available') <= 10
               /\ Len(available') <= Len(coverage_data)
               /\ Len(available') = 10 \/ Len(available') = Len(coverage_data)
               /\ \A i \in 1..Len(available') : available'[i] = coverage_data[i].name
               /\ num_segments' = 0
               /\ segments' = <<>>
               /\ top_samples' = <<>>
               /\ segment_leaders' = <<>>
               /\ unique_leaders' = 0
               /\ assessment' = None]_vars

\* The missing contig is reported with 10 of the store's 11 contig names.
C16_Witness ==
    /\ pc = "not_found"
    /\ contig_name \notin StoreNames(coverage_data)
    /\ Len(coverage_data) = 11
    /\ Len(available) = 10

\* The bounds of n segments of size z of a contig of length len are right:
\* z = floor(len / n), segment i < n starts at (i-1)*z and ends at i*z, each
\* segment starts where the previous one ends, the last starts at (n-1)*z and
\* ends at len, and its width is z plus less than n.
BoundsRight(bounds, n, z, len) ==
    /\ z * n <= len
    /\ len < (z + 1) * n
    /\ Len(bounds) = n
    /\ \A i \in 1..(n - 1) : bounds[i] = <<(i - 1) * z, i * z>>
    /\ \A i \in 1..(n - 1) : bounds[i + 1][1] = bounds[i][2]
    /\ bounds[n] = <<(n - 1) * z, len>>
    /\ bounds[n][2] - bounds[n][1] >= z
    /\ bounds[n][2] - bounds[n][1] - z < n

\* C17: with segment_size = floor(contig_length / segment_count), segment i
\* (0 <= i <= segment_count - 2) is [i*segment_size, (i+1)*segment_size), each
\* segment starts where the previous one ends, and the final segment runs from
\* (segment_count-1)*segment_size to contig_length, at least segment_size wide
\* and less than segment_count wider.
C17_SegmentBounds ==
    /\ pc \in {"divided", "analyzed"} =>
          BoundsRight(segments, num_segments, segment_size, contig_length)
    /\ pc \in {"scanned", "identified"} =>
          \A k \in 1..Len(leader_log) :
              LET len == ContigLength(Lookup(coverage_data, leader_log[k][1]))
              IN  BoundsRight([s \in 1..Len(leader_log[k][3]) |->
                                  <<leader_log[k][3][s].seg_start,
                                    leader_log[k][3][s].seg_end>>],
                              5, len \div 5, len)

\* Ten segments whose last one takes the largest remainder, 9.
C17_Witness ==
    /\ pc = "divided"
    /\ num_segments = 10
    /\ contig_length - 10 * segment_size = 9
    /\ segments[10][2] - segments[10][1] = segment_size + 9

\* The samples listed in a segment_coverage or a leaderboard.
SampleNames(items) == {items[j].sample : j \in 1..Len(items)}

\* For the segment [lo, hi) of a contig, its segment_coverage items and its
\* leader: a sample without a point in the segment is no item and not the
\* leader, and each item's mean is the sum of its sample's coverage values in
\* the segment over the number of that sample's points there.
MeansRight(contig_data, lo, hi, items, leader) ==
    \A i \in 1..Len(contig_data) :
        LET cnt == RangeCount(contig_data, i, lo, hi)
            sum == RangeSum(contig_data, i, lo, hi)
        IN  /\ cnt = 0 => (/\ contig_data[i].sample \notin SampleNames(items)
                           /\ leader # contig_data[i].sample)
            /\ \A j \in 1..Len(items) :
                  items[j].sample = contig_data[i].sample =>
                      (cnt > 0 /\ items[j].total * cnt = sum * items[j].count)

\* The segments (1..5) of a logged contig that got a leader, ascending.
LedIndexes(entry) ==
    SelectSeq(<<1, 2, 3, 4, 5>>, LAMBDA s : entry[3][s].segment_coverage # <<>>)

\* The leader the screening appended for segment s of a logged contig, None
\* when it appended none.
LoggedLeaderOf(entry, s) ==
    IF entry[3][s].segment_coverage = <<>> THEN None
    ELSE entry[2][CHOOSE j \in 1..Len(LedIndexes(entry)) : LedIndexes(entry)[j] = s]

AllMeansRight(closed) ==
    /\ pc = "analyzed" =>
          \A s \in 1..num_segments :
              MeansRight(Lookup(coverage_data, contig_name), (s - 1) * segment_size,
                         SegUpper(s - 1, segment_size, num_segments, contig_length,
                                  closed),
                         segment_coverages[s], segment_leaders[s])
    /\ pc \in {"scanned", "identified"} =>
          \A k \in 1..Len(leader_log) :
              LET cd == Lookup(coverage_data, leader_log[k][1])
                  len == ContigLength(cd)
              IN  /\ Len(leader_log[k][2]) = Len(LedIndexes(leader_log[k]))
                  /\ \A s \in 1..5 :
                        MeansRight(cd, (s - 1) * (len \div 5),
                                   SegUpper(s - 1, len \div 5, 5, len, closed),
                                   leader_log[k][3][s].segment_coverage,
                                   LoggedLeaderOf(leader_log[k], s))

\* C18: a sample with no recorded point in a segment is left out of the
\* segment, for every min_coverage (0 included): it is no candidate and not the
\* leader; and a sample's mean in a segment is the sum of its coverage values
\* at its points in the segment over the number of those points.  The segments
\* are those of the partition of [0, contig_length], the final one closed.
C18_GapsAreNotZeros == AllMeansRight(1)

\* The same over the points the code counts in a segment (the final segment
\* half-open): this holds.
MeansOfCountedPointsRight == AllMeansRight(0)

\* The place of a sample in the contig's insertion order.
PlaceOf(contig_data, sample) ==
    CHOOSE i \in 1..Len(contig_data) : contig_data[i].sample = sample

\* leader is the candidate (an item of the segment's segment_coverage) that
\* every other candidate is below in mean, or equal in mean and later in the
\* contig's insertion order.
FirstOfTheBest(contig_data, items, leader) ==
    \E k \in 1..Len(items) :
        /\ items[k].sample = leader
        /\ \A j \in 1..Len(items) :
              j # k =>
                  \/ items[k].total * items[j].count > items[j].total * items[k].count
                  \/ /\ items[k].total * items[j].count = items[j].total * items[k].count
                     /\ PlaceOf(contig_data, leader)
                           < PlaceOf(contig_data, items[j].sample)

\* C19: among the candidates of a segment that share the highest mean, the
\* leader is the one that comes first in the contig's sample insertion order:
\* a later sample takes the lead only with a strictly higher mean.
C19_FirstCandidateWinsTies ==
    /\ pc = "analyzed" =>
          \A s \in 1..num_segments :
              segment_coverages[s] # <<>> =>
                  FirstOfTheBest(Lookup(coverage_data, contig_name),
                                 segment_coverages[s], segment_leaders[s])
    /\ pc \in {"scanned", "identified"} =>
          \A k \in 1..Len(leader_log) :
              \A s \in 1..5 :
                  leader_log[k][3][s].segment_coverage # <<>> =>
                      FirstOfTheBest(Lookup(coverage_data, leader_log[k][1]),
                                     leader_log[k][3][s].segment_coverage,
                                     LoggedLeaderOf(leader_log[k], s))

\* Sample "B", read before "A", leads a segment in which both have the same mean.
C19_Witness ==
    /\ pc = "analyzed"
    /\ \E s \in 1..num_segments :
          /\ Len(segment_coverages[s]) = 2
          /\ segment_coverages[s][1].sample = "B"
          /\ segment_coverages[s][1].total * segment_coverages[s][2].count
                = segment_coverages[s][2].total * segment_coverages[s][1].count
          /\ segment_leaders[s] = "B"

\* board is the leaderboard of a segment whose candidates (the second pass's
\* segment_coverage) are cands and whose leader is leader.
BoardRight(board, cands, leader, threshold) ==
    /\ Len(board) = (IF Len(cands) < 5 THEN Len(cands) ELSE 5)
    /\ \A i \in 1..Len(board) :
          /\ \E j \in 1..Len(cands) : cands[j] = board[i]
          /\ board[i].total >= threshold * board[i].count
    /\ \A i, j \in 1..Len(board) : board[i].sample = board[j].sample => i = j
    /\ \A i \in 1..(Len(board) - 1) :
          board[i].total * board[i + 1].count >= board[i + 1].total * board[i].count
    /\ \A j \in 1..Len(cands) :
          cands[j].sample \notin SampleNames(board) =>
              \A i \in 1..Len(board) :
                  cands[j].total * board[i].count <= board[i].total * cands[j].count
    /\ board # <<>> => board[1].sample = leader
    /\ board = <<>> <=> leader = None

\* C20: in detailed mode the leaderboard of a segment lists min(5, number of
\* candidates) entries, each a candidate with its mean (>= min_coverage), in
\* non-increasing order of mean, no candidate left out having a higher mean
\* than one listed; its first entry is the sample the assessment pass records
\* as the segment's leader, and it is empty exactly when that leader is "none".
C20_LeaderboardTopFive ==
    pc = "analyzed" =>
        /\ Len(top_samples) = num_segments
        /\ \A s \in 1..num_segments :
              BoardRight(top_samples[s], segment_coverages[s], segment_leaders[s],
                         min_coverage)

\* Six candidates in a segment, five of them listed, the first above the last.
C20_Witness ==
    /\ pc = "analyzed"
    /\ \E s \in 1..num_segments :
          /\ Len(segment_coverages[s]) = 6
          /\ Len(top_samples[s]) = 5
          /\ top_samples[s][1].total > top_samples[s][5].total
          /\ top_samples[s][1].sample = segment_leaders[s]

\* The leader sequences that are rearrangements of leaders.
Rearranged(leaders) ==
    {[i \in 1..Len(leaders) |-> leaders[p[i]]] : p \in Permutations(1..Len(leaders))}

\* C21: the score, the unique-leader count and the assessment of a contig are
\* those of every rearrangement of its segment leader sequence, in screening
\* and in extraction; [A, B, A, B, A] and [A, A, A, B, B] both have 2 unique
\* leaders, score 0.4 and "Likely genuine".
C21_ScoreIgnoresLeaderOrder ==
    /\ pc = "scored" =>
          /\ \A other \in Rearranged(segment_leaders) :
                report = ScanReport(IF Len(other) > 0
                                    THEN <<ScanEntry(ContigNames[1], other)>> ELSE <<>>)
          /\ segment_leaders \in {<<"A", "B", "A", "B", "A">>, <<"A", "A", "A", "B", "B">>}
                => report = <<<<ContigNames[1], 24, 2, 5, "Likely genuine">>>>
    /\ pc = "extracted" =>
          \A other \in Rearranged(segment_leaders) :
              chimeric_contigs =
                 (IF Len(other) > 0
                     /\ ChimeraScore(UniqueLeaders(other), Len(other)) >= min_score
                  THEN <<<<ContigNames[1], ChimeraScore(UniqueLeaders(other), Len(other)),
                           UniqueLeaders(other)>>>>
                  ELSE <<>>)

\* The alternating leaders [A, B, A, B, A] have been scored: 2 of 5.
C21_Witness ==
    /\ pc = "scored"
    /\ segment_leaders = <<"A", "B", "A", "B", "A">>
    /\ Len(report) = 1
    /\ report[1][3] = 2
    /\ report[1][5] = "Likely genuine"

\* The sequence's members.
Members(seq) == {seq[i] : i \in 1..Len(seq)}

\* The sample has points and the mean of all its points on the contig is at
\* least t.
Qualifies(track, t) ==
    /\ track.points # <<>>
    /\ SumCoverage(track.points, 1..Len(track.points)) >= t * Len(track.points)

\* The mean of all of track a's points is at least that of track b's.
WholeMeanAtLeast(a, b) ==
    SumCoverage(a.points, 1..Len(a.points)) * Len(b.points)
        >= SumCoverage(b.points, 1..Len(b.points)) * Len(a.points)

\* kept is a right selection from contig_data: at least one and at most cap
\* samples, no sample twice, each with its points exactly as the store has
\* them, each qualifying, and none with a lower mean than a qualifying sample
\* left out.
KeptRight(kept, contig_data, t, cap) ==
    /\ Len(kept) >= 1
    /\ Len(kept) <= cap
    /\ \A i, j \in 1..Len(kept) : kept[i].sample = kept[j].sample => i = j
    /\ \A i \in 1..Len(kept) :
          /\ kept[i] \in Members(contig_data)
          /\ Qualifies(kept[i], t)
          /\ \A d \in Members(contig_data) \ Members(kept) :
                Qualifies(d, t) => WholeMeanAtLeast(kept[i], d)

\* The filtered data is right for the store, the assembly list and the two
\* arguments of the call.
FilteredRight(filtered, store, contigs, t, cap) ==
    /\ \A i, j \in 1..Len(filtered) : filtered[i].name = filtered[j].name => i = j
    /\ \A i \in 1..Len(filtered) :
          /\ filtered[i].name \in Members(contigs) \cap StoreNames(store)
          /\ KeptRight(filtered[i].samples, Lookup(store, filtered[i].name), t, cap)
    /\ \A name \in Members(contigs) \cap StoreNames(store) :
          (\A d \in Members(Lookup(store, name)) : ~Qualifies(d, t))
              => \A i \in 1..Len(filtered) : filtered[i].name # name

\* C22: a call of create_filtered_visualization leaves the Coverage Store as
\* it was, and its filtered data holds, for each contig of the assembly list
\* that is in the store, at most max_samples samples, each non-empty with
\* whole-contig mean >= min_mean_coverage and with its points as the store has
\* them, none with a lower mean than a qualifying sample that was dropped; a
\* contig with no qualifying sample is not in the filtered data; the
\* visualization is generated from this filtered data.
C22_FilterKeepsBestQualifying ==
    [][(pc = "idle" /\ pc' \in {"filtered", "raised"}) =>
          /\ coverage_data' = coverage_data
          /\ FilteredRight(filtered_coverage_data', coverage_data, all_contigs,
                           min_mean_coverage', max_samples')
          /\ pc' = "filtered" =>
                html'[FilteredOutputFile] = <<all_contigs, filtered_coverage_data'>>]_vars

\* A call with max_samples 2 on a contig with three qualifying samples keeps
\* two and drops the one of lowest mean, while another contig of the assembly
\* has no qualifying sample and is left out.
C22_Witness ==
    /\ pc = "filtered"
    /\ max_samples = 2
    /\ min_mean_coverage = 5
    /\ all_contigs = <<ContigNames[2], ContigNames[1]>>
    /\ Len(coverage_data) = 2
    /\ Len(filtered_coverage_data) = 1
    /\ filtered_coverage_data[1].name = ContigNames[1]
    /\ Len(filtered_coverage_data[1].samples) = 2
    /\ \A d \in Members(Lookup(coverage_data, ContigNames[1])) : Qualifies(d, 5)
    /\ Len(Lookup(coverage_data, ContigNames[1])) = 3
    /\ \E d \in Members(Lookup(coverage_data, ContigNames[1])) :
          /\ d \notin Members(filtered_coverage_data[1].samples)
          /\ d.points = <<[position |-> 0, coverage |-> 4], [position |-> 200, coverage |-> 6]>>
    /\ \A d \in Members(Lookup(coverage_data, ContigNames[2])) : ~Qualifies(d, 5)
    /\ html[FilteredOutputFile] = <<all_contigs, filtered_coverage_data>>

====
